---- MODULE Spec2Model ----
(***************************************************************************)
(* qr_labels.py: a batch tool that turns "url~caption" tokens into a sheet *)
(* of QR-code labels.  Strings are modelled as sequences of one-character  *)
(* strings, so that slicing, splitting, stripping and wrapping are         *)
(* computed character by character as the Python code computes them.      *)
(***************************************************************************)
EXTENDS Integers, Sequences, FiniteSets, TLC

VARIABLES
    label_type,     \* Args.label_type: the LabelMeta selected on the command line
    skip,           \* Args.skip
    break_on_any,   \* Args.break_on_any
    data_interim,   \* the raw data tokens (Args.data before process_args)
    now,            \* the date datetime.now() returns during the run
    pc,             \* position of main(): parse_args, process_args, partial_page, add_label, exit
    idx,            \* loop position inside process_args / the add_label loop
    data,           \* Args.data: the LabelData records built so far
    skip_cells,     \* main(): the list handed to sheet.partial_page
    used,           \* the layout engine's set of blocked cells of page 1
    label_count,    \* sheet.label_count
    saved,          \* TRUE once sheet.save has written output.pdf
    error,          \* the exception that ended the run, or NoError
    stdout,         \* what the run printed
    exit_status     \* process exit status, Running until the process ends

vars == <<label_type, skip, break_on_any, data_interim, now, pc, idx, data,
          skip_cells, used, label_count, saved, error, stdout, exit_status>>

----------------------------------------------------------------------------
(* Bounds of the model *)

MaxTextLen == 6      \* longest caption enumerated exhaustively
MaxUrlLen == 4       \* longest url body (after the scheme) enumerated
MaxSkip == 31       \* largest skip count enumerated
MaxGrid == 3         \* largest rows / columns of the small grids
MaxTokens == 2       \* most data tokens on one command line

----------------------------------------------------------------------------
(* Python string primitives *)

Min(a, b) == IF a < b THEN a ELSE b

\* s[i:j] with 0-based, end-exclusive Python indices, clipped to the string
Slice(s, i, j) == SubSeq(s, i + 1, Min(j, Len(s)))

RECURSIVE Rep(_, _)
Rep(c, n) == IF n = 0 THEN <<>> ELSE <<c>> \o Rep(c, n - 1)

IsSpace(c) == c = " "

\* str.rstrip()
RECURSIVE rstrip(_)
rstrip(s) ==
    IF s = <<>> THEN <<>>
    ELSE IF IsSpace(s[Len(s)]) THEN rstrip(SubSeq(s, 1, Len(s) - 1))
    ELSE s

\* str.startswith
startswith(s, p) == Len(p) <= Len(s) /\ SubSeq(s, 1, Len(p)) = p

\* sep in s
Contains(s, sep) ==
    \E k \in 1..Len(s) : startswith(SubSeq(s, k, Len(s)), sep)

\* str.find, 1-based, 0 when absent
Find(s, sep) ==
    IF Contains(s, sep)
    THEN CHOOSE k \in 1..Len(s) :
            /\ startswith(SubSeq(s, k, Len(s)), sep)
            /\ \A j \in 1..(k - 1) : ~startswith(SubSeq(s, j, Len(s)), sep)
    ELSE 0

\* str.split(sep): left to right, non-overlapping, empty pieces kept
RECURSIVE split(_, _)
split(s, sep) ==
    LET k == Find(s, sep) IN
    IF k = 0 THEN <<s>>
    ELSE <<SubSeq(s, 1, k - 1)>> \o split(SubSeq(s, k + Len(sep), Len(s)), sep)

\* ''.join(list)
RECURSIVE Join(_)
Join(ss) == IF ss = <<>> THEN <<>> ELSE Head(ss) \o Join(Tail(ss))

\* math.ceil(a / b) for a >= 0, b >= 1
ceil(a, b) == (a + b - 1) \div b

Digit(n) == <<"0", "1", "2", "3", "4", "5", "6", "7", "8", "9">>[n + 1]

TwoDigits(n) == <<Digit((n % 100) \div 10), Digit(n % 10)>>

\* datetime.strftime("%y-%m-%d")
strftime(d) == TwoDigits(d.year) \o <<"-">> \o TwoDigits(d.month) \o <<"-">> \o TwoDigits(d.day)

----------------------------------------------------------------------------
(* textwrap.wrap(text, width) with its defaults, on text whose only        *)
(* whitespace is the space character and that holds no hyphen              *)

\* length of the leading run of characters of one class (blank / non-blank)
RECURSIVE RunLen(_)
RunLen(s) ==
    IF Len(s) <= 1 THEN Len(s)
    ELSE IF IsSpace(s[1]) = IsSpace(s[2]) THEN 1 + RunLen(Tail(s))
    ELSE 1

\* TextWrapper._split: maximal runs of whitespace and of non-whitespace
RECURSIVE SplitChunks(_)
SplitChunks(s) ==
    IF s = <<>> THEN <<>>
    ELSE LET n == RunLen(s) IN
         <<SubSeq(s, 1, n)>> \o SplitChunks(SubSeq(s, n + 1, Len(s)))

\* chunk.strip() == ''
IsBlank(chunk) == \A i \in 1..Len(chunk) : IsSpace(chunk[i])

\* how many leading chunks fit on a line that already holds cur_len characters
RECURSIVE Fit(_, _, _)
Fit(chunks, cur_len, width) ==
    IF chunks = <<>> \/ cur_len + Len(chunks[1]) > width THEN 0
    ELSE 1 + Fit(Tail(chunks), cur_len + Len(chunks[1]), width)

\* TextWrapper._wrap_chunks, with _handle_long_word (break_long_words=True)
RECURSIVE WrapChunks(_, _, _)
WrapChunks(chunks, width, lines) ==
    IF chunks = <<>> THEN lines
    ELSE
      LET ch1   == IF IsBlank(chunks[1]) /\ lines # <<>> THEN Tail(chunks) ELSE chunks
          n     == Fit(ch1, 0, width)
          cur   == SubSeq(ch1, 1, n)
          rest  == SubSeq(ch1, n + 1, Len(ch1))
          long  == rest # <<>> /\ Len(rest[1]) > width
          left  == width - Len(Join(cur))
          cur2  == IF long THEN Append(cur, SubSeq(rest[1], 1, left)) ELSE cur
          rest2 == IF long
                   THEN <<SubSeq(rest[1], left + 1, Len(rest[1]))>> \o Tail(rest)
                   ELSE rest
          cur3  == IF cur2 # <<>> /\ IsBlank(cur2[Len(cur2)])
                   THEN SubSeq(cur2, 1, Len(cur2) - 1) ELSE cur2
          out   == IF cur3 # <<>> THEN Append(lines, Join(cur3)) ELSE lines
      IN WrapChunks(rest2, width, out)

textwrap_wrap(text, width) == WrapChunks(SplitChunks(text), width, <<>>)

----------------------------------------------------------------------------
(* Module constants *)

line_break == <<"#", "%">>

default_font == "Roboto"

default_font_size == 9

NoError == [kind |-> "none", arg |-> <<>>]

Running == -1

----------------------------------------------------------------------------
(* chunk_str and LabelData.__init__ *)

\* one iteration of the loop of chunk_str, idx counted from 0
Chunk(cstr, max_len, i) ==
    LET piece == rstrip(Slice(cstr, i * max_len, (i * max_len) + max_len)) IN
    IF i # 0 /\ startswith(piece, <<" ">>) THEN Tail(piece) ELSE piece

chunk_str(cstr, max_len) ==
    [i \in 1..ceil(Len(cstr), max_len) |-> Chunk(cstr, max_len, i - 1)]

\* the split of the caption at the line-break marker, each piece right-trimmed
TextLines(text) ==
    IF Contains(text, line_break)
    THEN LET parts == split(text, line_break) IN
         [i \in 1..Len(parts) |-> rstrip(parts[i])]
    ELSE <<rstrip(text)>>

RECURSIVE break_word(_, _)
break_word(lines, label_meta) ==
    IF lines = <<>> THEN <<>>
    ELSE textwrap_wrap(Head(lines), label_meta.text_line_max_len)
         \o break_word(Tail(lines), label_meta)

RECURSIVE break_any(_, _)
break_any(lines, label_meta) ==
    IF lines = <<>> THEN <<>>
    ELSE (IF Len(Head(lines)) <= label_meta.text_line_max_len
          THEN <<Head(lines)>>
          ELSE chunk_str(Head(lines), label_meta.text_line_max_len))
         \o break_any(Tail(lines), label_meta)

\* variant: the fallback hard-breaks the word-wrapped lines
BrokenLines_rewrap(text_lines, label_meta, boa) ==
    IF boa THEN break_any(text_lines, label_meta)
    ELSE LET broken_lines == break_word(text_lines, label_meta) IN
         IF Len(broken_lines) > label_meta.max_text_lines
         THEN break_any(broken_lines, label_meta)
         ELSE broken_lines

\* the choice of breaking strategy
BrokenLines(text_lines, label_meta, boa) ==
    IF boa THEN break_any(text_lines, label_meta)
    ELSE LET broken_lines == break_word(text_lines, label_meta) IN
         IF Len(broken_lines) > label_meta.max_text_lines
         THEN break_any(text_lines, label_meta)
         ELSE broken_lines

\* variant: the comparison is >= instead of >
TooLong_ge(broken_lines, label_meta) ==
    Len(broken_lines) >= label_meta.max_text_lines

\* the guard of raise ValueError('Text too long')
TooLong(broken_lines, label_meta) ==
    Len(broken_lines) > label_meta.max_text_lines

LabelLine(text, font_name, font_size) ==
    [text |-> text, font_name |-> font_name, font_size |-> font_size]

\* the timestamp line appended after the caption lines
TimestampLines(label_meta, today) ==
    IF label_meta.include_timestamp
    THEN <<LabelLine(strftime(today), label_meta.font, label_meta.subtext_font_size)>>
    ELSE <<>>

\* LabelData(url, text, label_meta): the record built, or the error raised
LabelData(url, text, label_meta, boa, today) ==
    LET broken_lines == BrokenLines(TextLines(text), label_meta, boa) IN
    IF TooLong(broken_lines, label_meta)
    THEN [raised |-> TRUE, error |-> [kind |-> "Text too long", arg |-> text]]
    ELSE [raised |-> FALSE,
          value |-> [url   |-> url,
                     meta  |-> label_meta,
                     lines |-> [i \in 1..Len(broken_lines) |->
                                   LabelLine(broken_lines[i], label_meta.font,
                                             label_meta.font_size)]
                                \o TimestampLines(label_meta, today)]]

----------------------------------------------------------------------------
(* _rx_url = (https?://)?(.+[^/.]+\.[^/.]+)(/?.+)? used with re.match *)

http == <<"h", "t", "t", "p", ":", "/", "/">>

https == <<"h", "t", "t", "p", "s", ":", "/", "/">>

\* the text that (https?://) matches at the start of u, or the empty string
SchemeOf(u) ==
    IF startswith(u, https) THEN https
    ELSE IF startswith(u, http) THEN http
    ELSE <<>>

NotSlashDot(c) == c # "/" /\ c # "."

\* some prefix of s matches .+[^/.]+\.[^/.]+ : a dot with a character other
\* than / and . on each side and at least two characters before it
MatchesBody(s) ==
    \E i \in 3..(Len(s) - 1) :
        s[i] = "." /\ NotSlashDot(s[i - 1]) /\ NotSlashDot(s[i + 1])

\* m.group(1) is set: the scheme group took part in the match
Group1(u) ==
    SchemeOf(u) # <<>> /\ MatchesBody(SubSeq(u, Len(SchemeOf(u)) + 1, Len(u)))

\* _rx_url.match(u) is not None: with the optional scheme group or, on
\* backtracking, without it
rx_url_match(u) == Group1(u) \/ MatchesBody(u)

\* the url handed to LabelData
NormalizeUrl(u) == IF ~Group1(u) THEN https \o u ELSE u

\* the body of the loop of process_args for one token
ProcessToken(data_str, label_meta, boa, today) ==
    LET d == split(data_str, <<"~">>) IN
    IF Len(d) # 2
    THEN [raised |-> TRUE, error |-> [kind |-> "Invalid data", arg |-> data_str]]
    ELSE IF ~rx_url_match(d[1])
    THEN [raised |-> TRUE, error |-> [kind |-> "Invalid url", arg |-> d[1]]]
    ELSE LabelData(NormalizeUrl(d[1]), d[2], label_meta, boa, today)

----------------------------------------------------------------------------
(* The template registry and the input families *)

avery_5160 ==
    [specs |-> [columns |-> 3, rows |-> 10],
     font |-> default_font,
     font_size |-> default_font_size,
     subtext_font_size |-> default_font_size - 3,
     text_line_max_len |-> 21,
     max_text_lines |-> 4,
     qr_text_pad |-> 3,
     include_timestamp |-> TRUE]

_label_meta == {avery_5160}

\* LabelMeta values with short lines, so that short captions wrap and overflow
SmallTemplates ==
    {[avery_5160 EXCEPT !.text_line_max_len = w, !.max_text_lines = m,
                        !.include_timestamp = t] :
        w \in {2, 3}, m \in {1, 2}, t \in BOOLEAN}

\* LabelMeta values with small grids
GridTemplates ==
    {[avery_5160 EXCEPT !.specs = [columns |-> c, rows |-> r]] :
        r \in 1..MaxGrid, c \in 1..MaxGrid}

Strings(alphabet, n) == UNION {[1..k -> alphabet] : k \in 0..n}

Captions == Strings({"a", " ", "#", "%"}, MaxTextLen)

Urls == {s \o b : s \in {<<>>, http, https}, b \in Strings({"a", ".", "/"}, MaxUrlLen)}

Dates == {[year |-> 2024, month |-> 6, day |-> 1], [year |-> 2026, month |-> 11, day |-> 12]}

Today == [year |-> 2024, month |-> 6, day |-> 1]

GoodUrl == <<"a", "b", ".", "c">>

Tilde == <<"~">>

Word21 == Rep("a", 21)

\* five words of 21 characters: too long for avery-5160 under both strategies
LongCaption ==
    Word21 \o <<" ">> \o Word21 \o <<" ">> \o Word21 \o <<" ">> \o Word21 \o <<" ">> \o Word21

\* 'example.com/path~Hello World'
ExampleToken ==
    <<"e", "x", "a", "m", "p", "l", "e", ".", "c", "o", "m", "/", "p", "a", "t", "h">>
    \o Tilde \o <<"H", "e", "l", "l", "o", " ", "W", "o", "r", "l", "d">>

\* five words of 16 characters: five lines when wrapped at words, four chunks of 21
FallbackCaption ==
    LET w == Rep("a", 16) IN
    w \o <<" ">> \o w \o <<" ">> \o w \o <<" ">> \o w \o <<" ">> \o w

\* data tokens of every kind: accepted ones and one for each validation error
Tokens ==
    {ExampleToken,
     GoodUrl \o Tilde \o <<"h", "i">>,
     GoodUrl,
     GoodUrl \o Tilde \o <<"a">> \o Tilde \o <<"b">>,
     <<"n", "o", "t", " ", "a", " ", "u", "r", "l">> \o Tilde \o <<"h", "i">>,
     GoodUrl \o Tilde \o LongCaption,
     GoodUrl \o Tilde \o FallbackCaption,
     GoodUrl \o Tilde \o <<"a", "#", "%", "b", "#", "%", "c", "#", "%", "d">>,
     GoodUrl \o Tilde \o Rep("a", 22),
     GoodUrl \o Tilde \o Word21 \o <<" ", " ", "b">>,
     GoodUrl \o Tilde}

TokenLists == UNION {[1..n -> Tokens] : n \in 1..MaxTokens}

----------------------------------------------------------------------------
(* The run of main() *)

InitRun ==
    /\ pc = "parse_args"
    /\ idx = 1
    /\ data = <<>>
    /\ skip_cells = <<>>
    /\ used = {}
    /\ label_count = 0
    /\ saved = FALSE
    /\ error = NoError
    /\ stdout = <<>>
    /\ exit_status = Running

\* the command line of the registered template
Init ==
    /\ label_type \in _label_meta
    /\ skip \in {0, 4, 30, 31}
    /\ break_on_any \in BOOLEAN
    /\ data_interim \in TokenLists
    /\ now \in Dates
    /\ InitRun

\* one label, every caption, on templates with short lines
InitLabel ==
    /\ label_type \in SmallTemplates
    /\ skip = 0
    /\ break_on_any \in BOOLEAN
    /\ data_interim \in {<<GoodUrl \o Tilde \o c>> : c \in Captions}
    /\ now = Today
    /\ InitRun

\* one label, every url
InitUrl ==
    /\ label_type \in _label_meta
    /\ skip = 0
    /\ break_on_any = FALSE
    /\ data_interim \in {<<u \o Tilde \o <<"h", "i">>>> : u \in Urls}
    /\ now = Today
    /\ InitRun

\* one label, every skip count, on small grids and on the registered one
InitSkip ==
    /\ label_type \in GridTemplates \cup _label_meta
    /\ skip \in 0..MaxSkip
    /\ break_on_any = FALSE
    /\ data_interim = <<GoodUrl \o Tilde \o <<"h", "i">>>>
    /\ now = Today
    /\ InitRun

\* except ValueError: print the error and the usage help, sys.exit(2)
HandleValueError(e) ==
    /\ error' = e
    /\ stdout' = stdout \o <<[print |-> "error", of |-> e], [print |-> "help"]>>
    /\ exit_status' = 2
    /\ pc' = "exit"

\* an exception main() does not catch: traceback, exit status 1
Uncaught(e) ==
    /\ error' = e
    /\ stdout' = stdout
    /\ exit_status' = 1
    /\ pc' = "exit"

\* Args.parse_args up to the loop of process_args
ParseArgs ==
    /\ pc = "parse_args"
    /\ IF Len(data_interim) > 0
       THEN /\ pc' = "process_args"
            /\ UNCHANGED <<error, stdout, exit_status>>
       ELSE HandleValueError([kind |-> "Invalid data", arg |-> <<>>])
    /\ data' = <<>>
    /\ idx' = 1
    /\ UNCHANGED <<label_type, skip, break_on_any, data_interim, now,
                   skip_cells, used, label_count, saved>>

\* one iteration of the loop of process_args
ProcessArgs ==
    /\ pc = "process_args"
    /\ idx <= Len(data_interim)
    /\ LET r == ProcessToken(data_interim[idx], label_type, break_on_any, now) IN
       IF r.raised
       THEN /\ HandleValueError(r.error)
            /\ UNCHANGED <<data, idx>>
       ELSE /\ data' = Append(data, r.value)
            /\ idx' = idx + 1
            /\ pc' = IF idx = Len(data_interim) THEN "partial_page" ELSE "process_args"
            /\ UNCHANGED <<error, stdout, exit_status>>
    /\ UNCHANGED <<label_type, skip, break_on_any, data_interim, now,
                   skip_cells, used, label_count, saved>>

\* variant: row and column exchanged
SkipCell_swapped(si, columns) == <<(si % columns) + 1, (si \div columns) + 1>>

\* the cell appended to skip_cells for index si
SkipCell(si, columns) == <<(si \div columns) + 1, (si % columns) + 1>>

SkipCells(k, columns) == [i \in 1..k |-> SkipCell(i - 1, columns)]

\* the index check of Sheet.partial_page
InGrid(cell, specs) ==
    /\ cell[1] >= 1 /\ cell[1] <= specs.rows
    /\ cell[2] >= 1 /\ cell[2] <= specs.columns

\* the skip-cell loop and sheet.partial_page(1, skip_cells)
PartialPage ==
    /\ pc = "partial_page"
    /\ LET cells == SkipCells(skip, label_type.specs.columns) IN
       /\ skip_cells' = cells
       /\ IF \A i \in 1..Len(cells) : InGrid(cells[i], label_type.specs)
          THEN /\ used' = {cells[i] : i \in 1..Len(cells)}
               /\ pc' = "add_label"
               /\ idx' = 1
               /\ UNCHANGED <<error, stdout, exit_status>>
          ELSE /\ Uncaught([kind |-> "IndexError", arg |-> <<>>])
               /\ UNCHANGED <<used, idx>>
    /\ UNCHANGED <<label_type, skip, break_on_any, data_interim, now,
                   data, label_count, saved>>

Reverse(s) == [i \in 1..Len(s) |-> s[Len(s) + 1 - i]]

\* variant: a label that does not fit is skipped and the run goes on
AddLabel_skip ==
    /\ pc = "add_label"
    /\ idx <= Len(data)
    /\ data' = [data EXCEPT ![idx].lines = Reverse(@)]
    /\ \E fits \in BOOLEAN :
          /\ label_count' = IF fits THEN label_count + 1 ELSE label_count
          /\ idx' = idx + 1
          /\ UNCHANGED <<pc, error, stdout, exit_status>>
    /\ UNCHANGED <<label_type, skip, break_on_any, data_interim, now,
                   skip_cells, used, saved>>

\* sheet.add_label(d): draw_address paints the label at once; whether the
\* text block fits the cell is decided by the font metrics
AddLabel ==
    /\ pc = "add_label"
    /\ idx <= Len(data)
    /\ data' = [data EXCEPT ![idx].lines = Reverse(@)]
    /\ \E fits \in BOOLEAN :
          IF fits
          THEN /\ label_count' = label_count + 1
               /\ idx' = idx + 1
               /\ UNCHANGED <<pc, error, stdout, exit_status>>
          ELSE /\ Uncaught([kind |-> "AssertionError", arg |-> <<>>])
               /\ UNCHANGED <<label_count, idx>>
    /\ UNCHANGED <<label_type, skip, break_on_any, data_interim, now,
                   skip_cells, used, saved>>

\* sheet.save and the summary line, after the last label
Save ==
    /\ pc = "add_label"
    /\ idx > Len(data)
    /\ saved' = TRUE
    /\ stdout' = stdout \o <<[print |-> "summary", labels |-> label_count]>>
    /\ exit_status' = 0
    /\ pc' = "exit"
    /\ UNCHANGED <<label_type, skip, break_on_any, data_interim, now, idx, data,
                   skip_cells, used, label_count, error>>

Next == ParseArgs \/ ProcessArgs \/ PartialPage \/ AddLabel \/ Save

Spec == Init /\ [][Next]_vars

SpecLabel == InitLabel /\ [][Next]_vars

SpecUrl == InitUrl /\ [][Next]_vars

SpecSkip == InitSkip /\ [][Next]_vars

----------------------------------------------------------------------------
(* Vocabulary of the properties *)

\* no label has been painted yet: the records in data are as LabelData built them
Fresh == pc \in {"process_args", "partial_page"}

\* the two fields of the i-th token (defined for the tokens that reached data)
UrlOf(i) == split(data_interim[i], Tilde)[1]

CaptionOf(i) == split(data_interim[i], Tilde)[2]

Texts(lines) == [j \in 1..Len(lines) |-> lines[j].text]

\* the texts of the caption lines of a record: its lines without the timestamp line
CaptionTexts(d) ==
    IF d.meta.include_timestamp
    THEN Texts(SubSeq(d.lines, 1, Len(d.lines) - 1))
    ELSE Texts(d.lines)

NotSpace(c) == ~IsSpace(c)

NonSpace(s) == SelectSeq(s, NotSpace)

NotBlank(chunk) == ~IsBlank(chunk)

NotEmpty(s) == s # <<>>

\* the whitespace-separated words of a text
Words(s) == SelectSeq(SplitChunks(s), NotBlank)

\* ' '.join(list)
RECURSIVE JoinSpaces(_)
JoinSpaces(ss) ==
    IF ss = <<>> THEN <<>>
    ELSE IF Len(ss) = 1 THEN ss[1]
    ELSE ss[1] \o <<" ">> \o JoinSpaces(Tail(ss))

ValidationKinds == {"Invalid data", "Invalid url", "Text too long"}

\* the caption needs more than max_text_lines lines under every strategy the mode tries
NeedsTooManyLines(text, label_meta, boa) ==
    LET frags == TextLines(text) IN
    IF boa
    THEN Len(break_any(frags, label_meta)) > label_meta.max_text_lines
    ELSE /\ Len(break_word(frags, label_meta)) > label_meta.max_text_lines
         /\ Len(break_any(frags, label_meta)) > label_meta.max_text_lines

----------------------------------------------------------------------------
(* C1 *)

\* C1: every constructed LabelData has at most max_text_lines entries in lines.
C1_LinesWithinMax ==
    \A i \in DOMAIN data : Len(data[i].lines) <= data[i].meta.max_text_lines

(* C2 *)

C3_TextTooLongExactly ==
    /\ error.kind = "Text too long"
          => NeedsTooManyLines(error.arg, label_type, break_on_any)
    /\ Fresh => \A i \in DOMAIN data :
          /\ ~NeedsTooManyLines(CaptionOf(i), label_type, break_on_any)
          /\ NonSpace(Join(CaptionTexts(data[i])))
                = NonSpace(Join(split(CaptionOf(i), line_break)))

\* default mode: the word wrap and the hard break both overflow, the run ends with the error
C3_Witness ==
    /\ error.kind = "Text too long"
    /\ ~break_on_any
    /\ exit_status = 2

(* C4 *)

\* C4: in hard-break mode every produced line has length at most max_len and
\* no line but the first begins with a space.  Stated on captions of a single
\* paragraph, where every stored line after the first is a continuation chunk
\* of chunk_str.
C4_HardBreakLines ==
    (Fresh /\ break_on_any) => \A i \in DOMAIN data :
        ~Contains(CaptionOf(i), line_break) =>
            LET t == CaptionTexts(data[i]) IN
            \A j \in DOMAIN t :
                /\ Len(t[j]) <= data[i].meta.text_line_max_len
                /\ j > 1 => ~startswith(t[j], <<" ">>)

(* C5 *)

\* C5: when the word-preserving wrap is the one stored, the lines joined with
\* single spaces have exactly the words of the caption's paragraphs, in order:
\* no word is split, dropped, reordered or duplicated.
C5_WordsPreserved ==
    (Fresh /\ ~break_on_any) => \A i \in DOMAIN data :
        LET frags == TextLines(CaptionOf(i)) IN
        Len(break_word(frags, data[i].meta)) <= data[i].meta.max_text_lines
            => Words(JoinSpaces(CaptionTexts(data[i]))) = Words(JoinSpaces(frags))

(* C6 *)

\* C6: an empty paragraph fragment contributes no line: the stored caption
\* lines are those of one of the two strategies applied to the non-empty
\* fragments alone.
C6_EmptyFragmentNoLine ==
    Fresh => \A i \in DOMAIN data :
        LET kept == SelectSeq(TextLines(CaptionOf(i)), NotEmpty) IN
        \/ CaptionTexts(data[i]) = break_word(kept, data[i].meta)
        \/ CaptionTexts(data[i]) = break_any(kept, data[i].meta)

(* C7 *)

HasScheme(u) == startswith(u, http) \/ startswith(u, https)

\* C7: an accepted url that starts with http:// or https:// is stored
\* unchanged, any other accepted url is stored with https:// prepended once,
\* so a stored url carries exactly one scheme prefix; a url without a dot is
\* rejected.
C7_UrlNormalized ==
    \A i \in DOMAIN data :
        LET u == UrlOf(i)
            stored == data[i].url
        IN /\ HasScheme(u) => stored = u
           /\ ~HasScheme(u) => stored = https \o u
           /\ HasScheme(stored)
           /\ ~HasScheme(SubSeq(stored, Len(SchemeOf(stored)) + 1, Len(stored)))
           /\ \E k \in DOMAIN u : u[k] = "."

(* C8 *)

\* what holds in every state of a run
C8_State ==
    /\ saved =>
          /\ error = NoError /\ exit_status = 0
          /\ Len(data) = Len(data_interim)
          /\ label_count = Len(data_interim)
    /\ error # NoError =>
          /\ ~saved /\ pc = "exit" /\ exit_status \notin {0, Running}
    /\ error.kind \in ValidationKinds =>
          /\ exit_status = 2
          /\ stdout = <<[print |-> "error", of |-> error], [print |-> "help"]>>
          /\ label_count = 0
          /\ Len(data) = idx - 1
          /\ ProcessToken(data_interim[idx], label_type, break_on_any, now).raised
          /\ \A j \in 1..(idx - 1) :
                ~ProcessToken(data_interim[j], label_type, break_on_any, now).raised
    /\ error.kind = "AssertionError" =>
          /\ Len(data) = Len(data_interim)
          /\ label_count = idx - 1

\* C8: the document is saved only after every token is parsed, every record
\* built and every label painted within bounds; the first error, in the
\* order the run meets them, ends the run with no document and a non-zero
\* exit status, which is 2 with the message and the usage help for the three
\* validation errors; and no document is saved after an error.
C8_NoPartialOutput ==
    /\ []C8_State
    /\ [][error # NoError => ~saved']_vars

\* the second token is invalid after the first was accepted: nothing is saved
C8_Witness ==
    /\ error.kind \in ValidationKinds
    /\ idx = 2 /\ Len(data) = 1
    /\ ~saved /\ exit_status = 2

(* C9 *)

\* main() has computed skip_cells and called sheet.partial_page
LaidOut == pc = "add_label" \/ (pc = "exit" /\ error.kind \notin ValidationKinds)

\* the p-th cell of an R x C grid in row-major order, counted from 1
IsRowMajorCell(cell, p, specs) ==
    /\ cell[2] \in 1..specs.columns
    /\ ((cell[1] - 1) * specs.columns) + cell[2] = p

\* C9 as stated: for every skip count k the cells handed to the layout engine
\* are the first k cells of the grid in row-major order, all distinct and all
\* inside the R x C grid.
C9_SkipCellsInGrid ==
    LaidOut =>
        /\ Len(skip_cells) = skip
        /\ \A p \in 1..skip :
              /\ IsRowMajorCell(skip_cells[p], p, label_type.specs)
              /\ InGrid(skip_cells[p], label_type.specs)
        /\ \A p, q \in 1..skip : p # q => skip_cells[p] # skip_cells[q]
        /\ used = {skip_cells[p] : p \in 1..skip}

\* C9 amended: the cells are the first k row-major positions, all distinct;
\* they are all inside the grid, and are the engine's blocked cells, when
\* k <= R * C; when k > R * C the cells from position R * C + 1 on lie in rows
\* beyond R.
C9_SkipCellsRowMajor ==
    LaidOut =>
        LET specs == label_type.specs IN
        /\ Len(skip_cells) = skip
        /\ \A p \in 1..skip : IsRowMajorCell(skip_cells[p], p, specs)
        /\ \A p, q \in 1..skip : p # q => skip_cells[p] # skip_cells[q]
        /\ \A p \in 1..skip :
              InGrid(skip_cells[p], specs) <=> p <= specs.rows * specs.columns
        /\ skip <= specs.rows * specs.columns
              => used = {skip_cells[p] : p \in 1..skip}

\* 10 x 3 with skip = 4
C9_Witness ==
    /\ LaidOut
    /\ label_type.specs = [columns |-> 3, rows |-> 10]
    /\ skip = 4
    /\ skip_cells = <<<<1, 1>>, <<1, 2>>, <<1, 3>>, <<2, 1>>>>
    /\ used = {<<1, 1>>, <<1, 2>>, <<1, 3>>, <<2, 1>>}

(* C10 *)

\* C10: in default mode the stored caption lines are the word-preserving wrap
\* of the fragments when it has at most max_text_lines lines, and otherwise
\* the hard-break wrap of the original fragments; in forced mode they are
\* always the hard-break wrap of the original fragments.  The hard break is
\* never taken of the word-wrapped lines: a caption is refused only when the
\* hard break of its original fragments overflows.
C10_StrategySelection ==
    /\ Fresh => \A i \in DOMAIN data :
          LET frags == TextLines(CaptionOf(i))
              meta == data[i].meta
              word == break_word(frags, meta)
              hard == break_any(frags, meta)
          IN CaptionTexts(data[i]) =
                IF break_on_any THEN hard
                ELSE IF Len(word) <= meta.max_text_lines THEN word
                ELSE hard
    /\ error.kind = "Text too long" =>
          Len(break_any(TextLines(error.arg), label_type)) > label_type.max_text_lines

\* the fallback was taken, and hard-breaking the word-wrapped lines would have
\* given other lines
C10_Witness ==
    /\ Fresh /\ ~break_on_any /\ Len(data) = 1
    /\ LET frags == TextLines(CaptionOf(1))
           word == break_word(frags, data[1].meta)
       IN /\ Len(word) > data[1].meta.max_text_lines
          /\ CaptionTexts(data[1]) = break_any(frags, data[1].meta)
          /\ CaptionTexts(data[1]) # break_any(word, data[1].meta)

====
